---- MODULE Spec2Model ----
(***************************************************************************)
(* The `!urandom` command handler of the urandom maubot plugin             *)
(* (src/urandom.py): RandomBot.urandom together with parse_urange and      *)
(* _parse_urange_part.                                                     *)
(*                                                                         *)
(* One invocation handles one command event.  Init draws the parsed        *)
(* argument map of the event; the action urandom runs the whole handler on *)
(* it and records what it sent, where it ended and whether it raised.      *)
(*                                                                         *)
(* A Python str is a sequence of one-character strings ("SOH" stands for   *)
(* the single character U+0001).  A generated string is recorded by its    *)
(* length and the set of code points occurring in it, which is all that    *)
(* the handler (the scan of line 229) reads of it.                         *)
(***************************************************************************)
EXTENDS Integers, Sequences, FiniteSets, TLC

VARIABLES args, exit, exc, sends, disable_reply, length, data, randomness,
          ranges, weights, logged

vars == <<args, exit, exc, sends, disable_reply, length, data, randomness,
          ranges, weights, logged>>

(***************************************************************************)
(* Bounds of the model.                                                    *)
(***************************************************************************)
\* at most this many arguments in one command
MaxArgs == 3
\* at most this many bytes of a `raw` output are rendered as an escape
MaxEscaped == 1

(***************************************************************************)
(* Program constants.                                                      *)
(***************************************************************************)
DEFAULT_LENGTH == 64
\* `if length > 512`
MAX_LENGTH == 512
\* `lim = range(0x110000)`
LIM == 1114112

(***************************************************************************)
(* Characters and strings.                                                 *)
(***************************************************************************)
Range(s) == {s[i] : i \in DOMAIN s}

\* ord() of the characters the inputs are written with
CodeTable ==
    { <<"SOH", 1>>, <<" ", 32>>, <<"+", 43>>, <<",", 44>>, <<"-", 45>>,
      <<"0", 48>>, <<"1", 49>>, <<"2", 50>>, <<"3", 51>>, <<"4", 52>>,
      <<"5", 53>>, <<"6", 54>>, <<"7", 55>>, <<"8", 56>>, <<"9", 57>>,
      <<"A", 65>>, <<"B", 66>>, <<"C", 67>>, <<"D", 68>>, <<"E", 69>>,
      <<"F", 70>>, <<"G", 71>>, <<"U", 85>>, <<"X", 88>>, <<"Y", 89>>,
      <<"Z", 90>>, <<"\\", 92>>,
      <<"a", 97>>, <<"b", 98>>, <<"c", 99>>, <<"d", 100>>, <<"e", 101>>,
      <<"f", 102>>, <<"g", 103>>, <<"u", 117>>, <<"x", 120>>, <<"y", 121>>,
      <<"z", 122>> }

Ord(c) == (CHOOSE p \in CodeTable : p[1] = c)[2]

\* unicodedata.category(c) == "Cc": the C0 and C1 controls
IsCc(cp) == (0 <= cp /\ cp <= 31) \/ (127 <= cp /\ cp <= 159)

\* the value of the digit with code point n, 99 when it is no digit
DigitOf(n) ==
    IF 48 <= n /\ n <= 57 THEN n - 48
    ELSE IF 97 <= n /\ n <= 102 THEN n - 87
    ELSE IF 65 <= n /\ n <= 70 THEN n - 55
    ELSE 99

DigitVal(c) == DigitOf(Ord(c))

StartsWith(s, p) == Len(s) >= Len(p) /\ SubSeq(s, 1, Len(p)) = p

From(s, i) == SubSeq(s, i, Len(s))

\* str.upper() on the characters of CodeTable
UpperChar(c) == IF Ord(c) \in 97..122
                THEN (CHOOSE p \in CodeTable : p[2] = Ord(c) - 32)[1]
                ELSE c

RECURSIVE DigitsValue(_, _)
DigitsValue(s, base) ==
    IF s = <<>> THEN 0
    ELSE DigitsValue(SubSeq(s, 1, Len(s) - 1), base) * base + DigitVal(s[Len(s)])

\* the numeral left after the sign
Unsigned(s) == IF s # <<>> /\ s[1] \in {"+", "-"} THEN Tail(s) ELSE s

\* the digits left after the 0x of base 16 or the 0b of base 2
Unprefixed(body, base) ==
    IF /\ Len(body) >= 2
       /\ body[1] = "0"
       /\ \/ base = 16 /\ body[2] \in {"x", "X"}
          \/ base = 2 /\ body[2] \in {"b", "B"}
    THEN From(body, 3)
    ELSE body

Numeral(negative, digits, base) ==
    IF digits # <<>> /\ \A i \in DOMAIN digits : DigitVal(digits[i]) < base
    THEN [ok |-> TRUE,
          v  |-> IF negative THEN 0 - DigitsValue(digits, base)
                 ELSE DigitsValue(digits, base)]
    ELSE [ok |-> FALSE, v |-> 0]

\* int(s, base) for base 2, 10 or 16: an optional sign, for base 16 an
\* optional 0x and for base 2 an optional 0b, then at least one digit of the
\* base.  ok = FALSE is ValueError.
ParseInt(s, base) ==
    Numeral(s # <<>> /\ s[1] = "-", Unprefixed(Unsigned(s), base), base)

\* str.split(sep) for a one-character separator
RECURSIVE Split(_, _)
Split(s, sep) ==
    IF \E i \in DOMAIN s : s[i] = sep
    THEN LET i == CHOOSE j \in DOMAIN s :
                      s[j] = sep /\ \A k \in 1..(j - 1) : s[k] # sep
         IN  <<SubSeq(s, 1, i - 1)>> \o Split(From(s, i + 1), sep)
    ELSE <<s>>

\* str.strip(): whitespace off both ends
RECURSIVE Strip(_)
Strip(s) ==
    IF s # <<>> /\ s[1] = " " THEN Strip(Tail(s))
    ELSE IF s # <<>> /\ s[Len(s)] = " " THEN Strip(SubSeq(s, 1, Len(s) - 1))
    ELSE s

\* str.replace(old, " "): every non-overlapping occurrence, left to right;
\* an empty `old` matches before every character and at the end
RECURSIVE Replace(_, _)
Replace(s, old) ==
    IF old = <<>>
    THEN IF s = <<>> THEN <<" ">> ELSE <<" ", s[1]>> \o Replace(Tail(s), old)
    ELSE IF s = <<>> THEN <<>>
    ELSE IF StartsWith(s, old) THEN <<" ">> \o Replace(From(s, Len(old) + 1), old)
    ELSE <<s[1]>> \o Replace(Tail(s), old)

(***************************************************************************)
(* parse_urange and _parse_urange_part.  A result carries the exception    *)
(* the call raised ("none" when it returned).                              *)
(***************************************************************************)
Ok(v) == [exc |-> "none", v |-> v]

Raise(e) == [exc |-> e, v |-> 0]

\* ValueError when the text is no number
IntResult(r) == IF r.ok THEN Ok(r.v) ELSE Raise("ValueError")

\* int(s, base) as the parsers call it
IntOrValueError(s, base) == IntResult(ParseInt(s, base))

Cons(cp, rest) == [ok |-> rest.ok, s |-> <<cp>> \o rest.s]

\* val.encode("utf-8").decode("unicode-escape") for a text whose only
\* backslashes start a \uXXXX escape: the code points of the decoded text;
\* ok = FALSE is UnicodeDecodeError (a ValueError)
RECURSIVE DecodeEscape(_)
DecodeEscape(s) ==
    IF s = <<>> THEN [ok |-> TRUE, s |-> <<>>]
    ELSE IF s[1] = "\\"
    THEN IF /\ Len(s) >= 6
            /\ s[2] = "u"
            /\ \A i \in 3..6 : DigitVal(s[i]) < 16
         THEN Cons(DigitsValue(SubSeq(s, 3, 6), 16), DecodeEscape(From(s, 7)))
         ELSE [ok |-> FALSE, s |-> <<>>]
    ELSE Cons(Ord(s[1]), DecodeEscape(Tail(s)))

\* ord(<decoded text>): TypeError unless it is one character
OrdDecoded(d) ==
    IF ~d.ok THEN Raise("ValueError")
    ELSE IF Len(d.s) = 1 THEN Ok(d.s[1])
    ELSE Raise("TypeError")

\* try: ord(val) except TypeError: int(val)
PartOrd(val) ==
    IF Len(val) = 1 THEN Ok(Ord(val[1])) ELSE IntOrValueError(val, 10)

_parse_urange_part(val) ==
    IF StartsWith(val, <<"0", "x">>) THEN IntOrValueError(val, 16)
    ELSE IF StartsWith(val, <<"0", "b">>) THEN IntOrValueError(val, 2)
    ELSE IF StartsWith(val, <<"\\", "u">>) THEN OrdDecoded(DecodeEscape(val))
    ELSE PartOrd(val)

Pair(start, end) == [exc |-> "none", start |-> start, end |-> end]

NoPair(e) == [exc |-> e, start |-> 0, end |-> 0]

\* `return char, char`
Single(char) ==
    IF char.exc # "none" THEN NoPair(char.exc) ELSE Pair(char.v, char.v)

\* `start, end = parts`, the two parsed left to right into a and b
BothParts(parts, a, b) ==
    IF Len(parts) # 2 THEN NoPair("ValueError")
    ELSE IF a.exc # "none" THEN NoPair(a.exc)
    ELSE IF b.exc # "none" THEN NoPair(b.exc)
    ELSE Pair(a.v, b.v)

\* int(start, 16), int(end, 16)
HexParts(parts) ==
    BothParts(parts, IntOrValueError(parts[1], 16), IntOrValueError(parts[2], 16))

\* _parse_urange_part(start), _parse_urange_part(end)
PlainParts(parts) ==
    BothParts(parts, _parse_urange_part(parts[1]), _parse_urange_part(parts[2]))

parse_urange(val) ==
    IF "-" \notin Range(val)
    THEN Single(IF StartsWith(val, <<"U", "+">>)
                THEN IntOrValueError(From(val, 3), 16)
                ELSE _parse_urange_part(val))
    ELSE IF StartsWith([i \in DOMAIN val |-> UpperChar(val[i])], <<"U", "+">>)
    THEN HexParts(Split(From(val, 3), "-"))
    ELSE PlainParts(Split(val, "-"))

(***************************************************************************)
(* The argument map (Args): each key present maps to True or to a str.     *)
(***************************************************************************)
True == [t |-> "bool", s |-> <<>>]

Str(s) == [t |-> "str", s |-> s]

Has(a, key) == key \in DOMAIN a

(***************************************************************************)
(* What an invocation sends, and the values it generates.                  *)
(***************************************************************************)
\* a str of n characters whose set of code points is S; `pad` counts its
\* trailing "=", `odd` says that its last character stands for one byte
Text(n, S) == [type |-> "str", len |-> n, chars |-> S, pad |-> 0, odd |-> FALSE]

\* the characters of the encoders' alphabets are printable and not tracked
Encoded(n, pad, odd) ==
    [type |-> "str", len |-> n, chars |-> {}, pad |-> pad, odd |-> odd]

\* os.urandom(n)
Bytes(n) == [type |-> "bytes", len |-> n, chars |-> {}, pad |-> 0, odd |-> FALSE]

NoValue == [type |-> "none", len |-> 0, chars |-> {}, pad |-> 0, odd |-> FALSE]

\* evt.reply(<str>): a help page or a diagnostic
Reply(text) == [kind |-> "reply", text |-> text, body |-> NoValue]

\* evt.reply(TextMessageEventContent(body=..., msgtype=MessageType.NOTICE))
Notice(r) == [kind |-> "notice", text |-> "", body |-> r]

\* self.client.send_state_event(evt.room_id, EventType.ROOM_TOPIC, ...)
TopicEvent(r) == [kind |-> "topic", text |-> "", body |-> r]

\* the locals at the start of the handler, after line 161
Entry(a) ==
    [exit |-> "pending", exc |-> "none", sends |-> <<>>,
     disable_reply |-> ~Has(a, "reply") /\ ~Has(a, "replay"),
     length |-> 0, data |-> <<>>, randomness |-> NoValue,
     ranges |-> <<>>, weights |-> <<>>, logged |-> FALSE]

\* the handler returns at `where` after sending msgs
Returned(o, where, msgs) == [o EXCEPT !.exit = where, !.sends = o.sends \o msgs]

\* the handler raises e at `where`
Raised(o, where, e) == [o EXCEPT !.exit = where, !.exc = e]

(***************************************************************************)
(* help                                                                    *)
(***************************************************************************)
\* helps.get(args["help"], HELP_UNKNOWN)
helps_get(v) ==
    IF v.t = "bool" THEN "HELP"
    ELSE IF v.s = <<"b", "a", "s", "e">> THEN "HELP_BASE"
    ELSE IF v.s = <<"a", "l", "p", "h", "a", "b", "e", "t">> THEN "HELP_ALPHABET"
    ELSE IF v.s = <<"u", "r", "a", "n", "g", "e">> THEN "HELP_URANGE"
    ELSE IF v.s = <<"t", "o", "p", "i", "c">> THEN "HELP_TOPIC"
    ELSE IF v.s = <<"l", "e", "n">> THEN "HELP_LEN"
    ELSE IF v.s = <<"h", "e", "l", "p">> THEN "HELP_HELP"
    ELSE "HELP_UNKNOWN"

(***************************************************************************)
(* len                                                                     *)
(***************************************************************************)
\* except ValueError: length = 64
LengthOr64(r) == IF r.ok THEN r.v ELSE 64

\* try: length = int(args["len"]) except (KeyError, ValueError): length = 64
\* (int(True) is 1)
ParseLength(a) ==
    IF ~Has(a, "len") THEN 64
    ELSE IF a["len"].t = "bool" THEN 1
    ELSE LengthOr64(ParseInt(a["len"].s, 10))

\* a handler that generates `length` units as given, 0 included
UnitsAsGiven(n) == n

\* length or DEFAULT_LENGTH
Units(n) == IF n # 0 THEN n ELSE DEFAULT_LENGTH

(***************************************************************************)
(* Lines 229-236: the scan for control characters and the delivery.        *)
(***************************************************************************)
\* a handler that sends the notice as well as the topic event
FinishAlsoNotice(a, o, r) ==
    IF r.type = "bytes" /\ r.len > 0
    THEN Raised([o EXCEPT !.randomness = r], "scan", "TypeError")
    ELSE Returned([o EXCEPT !.randomness = r], "delivered",
                  (IF \E c \in r.chars : IsCc(c)
                   THEN <<Reply("Output contains non-printable characters")>>
                   ELSE <<>>)
                  \o (IF Has(a, "topic") THEN <<TopicEvent(r)>> ELSE <<>>)
                  \o <<Notice(r)>>)

\* a handler that returns after the warning, the output suppressed
FinishSuppressed(a, o, r) ==
    IF r.type = "bytes" /\ r.len > 0
    THEN Raised([o EXCEPT !.randomness = r], "scan", "TypeError")
    ELSE Returned([o EXCEPT !.randomness = r], "delivered",
                  IF \E c \in r.chars : IsCc(c)
                  THEN <<Reply("Output contains non-printable characters")>>
                  ELSE IF Has(a, "topic") THEN <<TopicEvent(r)>> ELSE <<Notice(r)>>)

\* iterating bytes yields ints, and unicodedata.category(<int>) is a
\* TypeError
Finish(a, o, r) ==
    IF r.type = "bytes" /\ r.len > 0
    THEN Raised([o EXCEPT !.randomness = r], "scan", "TypeError")
    ELSE LET warn == IF \E c \in r.chars : IsCc(c)
                     THEN <<Reply("Output contains non-printable characters")>>
                     ELSE <<>>
             out  == IF Has(a, "topic") THEN TopicEvent(r) ELSE Notice(r)
         IN  Returned([o EXCEPT !.randomness = r], "delivered", warn \o <<out>>)

\* the outcomes of rand.choices(population, k=k) over the code points D:
\* the sets of code points a str of k draws can consist of
Sampled(D, k) == {S \in SUBSET D : S # {} /\ Cardinality(S) <= k}

(***************************************************************************)
(* alphabet mode, lines 176-185                                            *)
(***************************************************************************)
Codes(s) == {Ord(s[i]) : i \in DOMAIN s}

\* data = list(alphabet); rand.shuffle(data)
Shuffles(alphabet) ==
    {[i \in DOMAIN alphabet |-> alphabet[p[i]]] : p \in Permutations(DOMAIN alphabet)}

\* lines 180-185 on the alphabet after the substitution of line 179
FromAlphabet(a, o, alphabet) ==
    IF Has(a, "permutation") \/ Has(a, "shuffle")
    THEN {Finish(a, [o EXCEPT !.data = d], Text(Len(d), Codes(d))) :
              d \in Shuffles(alphabet)}
    ELSE IF alphabet = <<>>
    THEN {Raised(o, "alphabet", "IndexError")}
    ELSE {Finish(a, o, Text(Units(o.length), S)) :
              S \in Sampled(Codes(alphabet), Units(o.length))}

\* True has no replace() (AttributeError) and no len() (TypeError), and
\* str.replace(True, " ") is a TypeError
AlphabetMode(a, o) ==
    IF a["alphabet"].t = "bool"
    THEN {Raised(o, "alphabet",
                 IF Has(a, "space") THEN "AttributeError" ELSE "TypeError")}
    ELSE IF Has(a, "space") /\ a["space"].t = "bool"
    THEN {Raised(o, "alphabet", "TypeError")}
    ELSE FromAlphabet(a, o, IF Has(a, "space")
                            THEN Replace(a["alphabet"].s, a["space"].s)
                            ELSE a["alphabet"].s)

(***************************************************************************)
(* urange mode, lines 186-210                                              *)
(***************************************************************************)
\* `x in lim`, lim = range(0x110000)
InLim(x) == 0 <= x /\ x < LIM

Ended(res, e, rs, ws) == [res |-> res, exc |-> e, ranges |-> rs, weights |-> ws]

\* the loop of lines 191-203 over the expressions left, rs and ws being the
\* lists built so far: how it ends ("ok": every expression was appended).
\* Checked is the body of the loop on the parsed expression p.
RECURSIVE ParseRanges(_, _, _)
\* a loop body that checks the limits before the zero endpoint
CheckedLimFirst(p, rest, rs, ws) ==
    IF p.exc = "ValueError" THEN Ended("invalid", "none", rs, ws)
    ELSE IF p.exc # "none" THEN Ended("raised", p.exc, rs, ws)
    ELSE IF ~InLim(p.start) THEN Ended("invalid", "none", rs, ws)
    ELSE IF ~InLim(p.end) THEN Ended("invalid", "none", rs, ws)
    ELSE IF p.start = 0 \/ p.end = 0 THEN Ended("zero", "none", rs, ws)
    ELSE ParseRanges(rest, Append(rs, <<p.start, p.end + 1>>),
                     Append(ws, p.end - p.start + 1))

Checked(p, rest, rs, ws) ==
    IF p.exc = "ValueError" THEN Ended("invalid", "none", rs, ws)
    ELSE IF p.exc # "none" THEN Ended("raised", p.exc, rs, ws)
    ELSE IF p.start = 0 \/ p.end = 0 THEN Ended("zero", "none", rs, ws)
    ELSE IF ~InLim(p.start) THEN Ended("invalid", "none", rs, ws)
    ELSE IF ~InLim(p.end) THEN Ended("invalid", "none", rs, ws)
    ELSE ParseRanges(rest, Append(rs, <<p.start, p.end + 1>>),
                     Append(ws, p.end - p.start + 1))

ParseRanges(exprs, rs, ws) ==
    IF exprs = <<>> THEN Ended("ok", "none", rs, ws)
    ELSE Checked(parse_urange(Strip(Head(exprs))), Tail(exprs), rs, ws)

\* itertools.accumulate(weights)
RECURSIVE Accumulate(_)
Accumulate(ws) ==
    IF Len(ws) <= 1 THEN ws
    ELSE LET front == Accumulate(SubSeq(ws, 1, Len(ws) - 1))
         IN  Append(front, front[Len(front)] + ws[Len(ws)])

\* bisect.bisect(cum, x, lo, hi), indices counted from 0 as in Python.  The
\* entries of cum are integers, so x stands for floor(x).
RECURSIVE Bisect(_, _, _, _)
Bisect(cum, x, lo, hi) ==
    IF lo < hi
    THEN LET mid == (lo + hi) \div 2
         IN  IF x < cum[mid + 1] THEN Bisect(cum, x, lo, mid)
             ELSE Bisect(cum, x, mid + 1, hi)
    ELSE lo

\* the values floor(random() * total) can take, random() being in [0, 1)
Scaled(total) == IF total > 0 THEN 0..(total - 1) ELSE total..0

Picked(cum) == {Bisect(cum, x, 0, Len(cum) - 1) + 1 : x \in Scaled(cum[Len(cum)])}

\* the positions (from 1) rand.choices(ranges, weights, k=...) can select:
\* bisect(cum_weights, random() * total, 0, n - 1)
Selectable(ws) == Picked(Accumulate(ws))

Total(ws) == Accumulate(ws)[Len(ws)]

\* a draw that takes the stored end as included
RandrangeInclusive(pair) == pair[1]..pair[2]

\* rand.randrange(start, end) over a drawn pair: its possible values
Randrange(pair) == pair[1]..(pair[2] - 1)

\* lines 208-210 once choices() has returned the pairs at `picked`:
\* randrange raises ValueError on an empty pair
Draw(a, o, picked) ==
    (IF \E i \in picked : Randrange(o.ranges[i]) = {}
     THEN {Raised(o, "sampling", "ValueError")}
     ELSE {})
    \cup {Finish(a, o, Text(Units(o.length), S)) :
              S \in Sampled(UNION {Randrange(o.ranges[i]) : i \in picked},
                            Units(o.length))}

\* rand.choices raises ValueError("Total of weights must be greater than
\* zero") from CPython 3.9 on and samples regardless before: both outcomes
Sampling(a, o) ==
    (IF Total(o.weights) > 0 THEN {} ELSE {Raised(o, "sampling", "ValueError")})
    \cup Draw(a, o, Selectable(o.weights))

\* lines 194-210 once the loop has ended as l
AfterLoop(a, o, l) ==
    IF l.res = "zero"
    THEN {Returned(o, "zero_endpoint", <<Reply("java.lang.NullPointerException")>>)}
    ELSE IF l.res = "invalid"
    THEN {[Returned(o, "invalid_range", <<Reply("Invalid unicode range")>>)
              EXCEPT !.logged = TRUE]}
    ELSE IF l.res = "raised"
    THEN {Raised(o, "parse", l.exc)}
    ELSE Sampling(a, o)

WithRanges(o, l) == [o EXCEPT !.ranges = l.ranges, !.weights = l.weights]

Looped(a, o, l) == AfterLoop(a, WithRanges(o, l), l)

\* True has no split(): AttributeError
UrangeMode(a, o) ==
    IF a["urange"].t = "bool"
    THEN {Raised(o, "parse", "AttributeError")}
    ELSE Looped(a, o, ParseRanges(Split(a["urange"].s, ","), <<>>, <<>>))

(***************************************************************************)
(* byte mode, lines 211-228                                                *)
(***************************************************************************)
DEFAULT_BASE == <<"6", "4">>

CeilDiv(n, d) == (n + d - 1) \div d

\* base64.b16encode
b16encode(b) == Encoded(2 * b.len, 0, FALSE)

\* base64.b32encode: 8 characters for every 5 bytes, "=" padded
b32encode(b) ==
    Encoded(8 * CeilDiv(b.len, 5),
            CASE b.len % 5 = 0 -> 0 [] b.len % 5 = 1 -> 6 [] b.len % 5 = 2 -> 4
              [] b.len % 5 = 3 -> 3 [] OTHER -> 1,
            FALSE)

\* base64.b64encode: 4 characters for every 3 bytes, "=" padded
b64encode(b) == Encoded(4 * CeilDiv(b.len, 3), (3 - (b.len % 3)) % 3, FALSE)

\* base64.b85encode: 5 characters for every 4 bytes, the characters of the
\* zero fill of the last group dropped
b85encode(b) == Encoded(5 * CeilDiv(b.len, 4) - ((4 - (b.len % 4)) % 4), 0, FALSE)

\* base65536.encode: a character for every 2 bytes, a character of the
\* one-byte block for an odd last byte
b65536encode(b) == Encoded(CeilDiv(b.len, 2), 0, b.len % 2 = 1)

\* .rstrip("="): "=" is in none of the alphabets, so the padding goes
rstrip(r) == [r EXCEPT !.len = r.len - r.pad, !.pad = 0]

\* str(<bytes>): b'...' with esc4 bytes written \xNN and esc2 bytes written
\* as a two-character escape
repr(b, esc4, esc2) == Encoded(b.len + 3 + 3 * esc4 + esc2, 0, FALSE)

ByteMode(a, o) ==
    LET bytes == Bytes(Units(o.length))
        base  == IF Has(a, "base") THEN a["base"] ELSE Str(DEFAULT_BASE)
        is(s) == base.t = "str" /\ base.s = s
    IN  IF is(<<"r", "a", "w">>)
        THEN {Finish(a, o, repr(bytes, e4, e2)) :
                  <<e4, e2>> \in {p \in (0..MaxEscaped) \X (0..MaxEscaped) :
                                      p[1] + p[2] <= bytes.len}}
        ELSE IF is(<<"1", "6">>) \/ is(<<"h", "e", "x">>)
        THEN {Finish(a, o, b16encode(bytes))}
        ELSE IF is(<<"3", "2">>)
        THEN {Finish(a, o, rstrip(b32encode(bytes)))}
        ELSE IF is(<<"6", "4">>)
        THEN {Finish(a, o, rstrip(b64encode(bytes)))}
        ELSE IF is(<<"8", "5">>)
        THEN {Finish(a, o, b85encode(bytes))}
        ELSE IF is(<<"6", "5", "5", "3", "6">>)
        THEN {Finish(a, o, b65536encode(bytes))}
        ELSE {Finish(a, [o EXCEPT !.sends = Append(@, Reply("Unknown base"))],
                     bytes)}

(***************************************************************************)
(* RandomBot.urandom, lines 160-236: every way the handler can end on the  *)
(* argument map a.                                                         *)
(***************************************************************************)
\* a handler that dispatches on the mode before it checks the length
DispatchModeFirst(a, o) ==
    IF Has(a, "alphabet") THEN AlphabetMode(a, o)
    ELSE IF Has(a, "urange") THEN UrangeMode(a, o)
    ELSE IF o.length > MAX_LENGTH
    THEN {Returned(o, "too_high", <<Reply("Too high length")>>)}
    ELSE IF o.length < 0
    THEN {Returned(o, "invalid_length", <<Reply("Invalid length")>>)}
    ELSE ByteMode(a, o)

Dispatch(a, o) ==
    IF o.length > MAX_LENGTH
    THEN {Returned(o, "too_high", <<Reply("Too high length")>>)}
    ELSE IF o.length < 0
    THEN {Returned(o, "invalid_length", <<Reply("Invalid length")>>)}
    ELSE IF Has(a, "alphabet") THEN AlphabetMode(a, o)
    ELSE IF Has(a, "urange") THEN UrangeMode(a, o)
    ELSE ByteMode(a, o)

WithLength(o, n) == [o EXCEPT !.length = n]

\* a handler that checks the length before it looks for `help`
HandlerLengthFirst(a) ==
    IF ParseLength(a) > MAX_LENGTH \/ ParseLength(a) < 0 \/ ~Has(a, "help")
    THEN Dispatch(a, WithLength(Entry(a), ParseLength(a)))
    ELSE {Returned(Entry(a), "help", <<Reply(helps_get(a["help"]))>>)}

Handler(a) ==
    IF Has(a, "help")
    THEN {Returned(Entry(a), "help", <<Reply(helps_get(a["help"]))>>)}
    ELSE Dispatch(a, WithLength(Entry(a), ParseLength(a)))

(***************************************************************************)
(* The commands checked: every argument map of at most MaxArgs keys whose  *)
(* values are drawn from the sets below.  parse_args yields each of them   *)
(* (lower-case keys, True for a bare flag, a str without spaces after `=`).*)
(***************************************************************************)
Keys == {"help", "len", "alphabet", "space", "shuffle", "permutation",
         "urange", "base", "topic", "reply", "replay"}

HelpValues ==
    {True, Str(<<"b", "a", "s", "e">>),
     Str(<<"a", "l", "p", "h", "a", "b", "e", "t">>),
     Str(<<"u", "r", "a", "n", "g", "e">>), Str(<<"t", "o", "p", "i", "c">>),
     Str(<<"l", "e", "n">>), Str(<<"h", "e", "l", "p">>), Str(<<"x">>)}

LenValues ==
    {True, Str(<<"0">>), Str(<<"1">>), Str(<<"5", "1", "2">>),
     Str(<<"5", "1", "3">>), Str(<<"-", "1">>), Str(<<"x">>)}

AlphabetValues ==
    {True, Str(<<>>), Str(<<"a", "b">>), Str(<<"a", "a", "b">>),
     Str(<<"a", "SOH">>)}

SpaceValues == {True, Str(<<"a">>), Str(<<>>)}

BaseValues ==
    {True, Str(<<"r", "a", "w">>), Str(<<"1", "6">>), Str(<<"h", "e", "x">>),
     Str(<<"3", "2">>), Str(<<"6", "4">>), Str(<<"8", "5">>),
     Str(<<"6", "5", "5", "3", "6">>), Str(<<"9", "9">>)}

\* range expressions: valid ones in each notation, ones with an endpoint 0,
\* unparsable ones, ones out of range(0x110000), ones with start > end
X_a_c      == <<"a", "-", "c">>
X_hex      == <<"0", "x", "6", "1", "-", "0", "x", "6", "3">>
X_Uplus    == <<"U", "+", "0", "0", "6", "1", "-", "0", "0", "6", "3">>
X_uplus    == <<"u", "+", "6", "1", "-", "6", "2">>
X_a        == <<"a">>
X_c        == <<"c">>
X_U61      == <<"U", "+", "6", "1">>
X_escape   == <<"\\", "u", "0", "0", "6", "1">>
X_soh      == <<"SOH">>
X_bin      == <<"0", "b", "1", "-", "0", "b", "1", "0">>
X_digits   == <<"0", "-", "2">>
X_dec      == <<"9", "7", "-", "9", "8">>
X_last     == <<"0", "x", "1", "0", "F", "F", "F", "F">>
X_zero     == <<"0", "x", "0">>
X_zero_5   == <<"0", "0", "-", "5">>
X_a_zero   == <<"a", "-", "0", "b", "0">>
X_zero_big == <<"0", "x", "0", "-", "0", "x", "1", "1", "0", "0", "0", "0">>
X_zero_bad == <<"0", "x", "0", "-", "z", "z">>
X_bad      == <<"z", "z">>
X_big      == <<"0", "x", "1", "1", "0", "0", "0", "0">>
X_a_big    == <<"a", "-", "0", "x", "1", "1", "0", "0", "0", "0">>
X_two      == <<"\\", "u", "0", "0", "6", "1", "b">>
X_z_a      == <<"z", "-", "a">>
X_b_a      == <<"b", "-", "a">>
X_c_a      == <<"c", "-", "a">>

Join2(x, y) == x \o <<",">> \o y

UrangeValues ==
    {True} \cup
    {Str(x) : x \in
        {X_a_c, X_hex, X_Uplus, X_uplus, X_a, X_U61, X_escape, X_soh, X_bin,
         X_digits, X_dec, X_last, X_zero, X_zero_5, X_a_zero, X_zero_big,
         X_zero_bad, X_bad, X_big, X_a_big, X_two, X_z_a, X_b_a,
         Join2(X_a, X_c), Join2(X_a_c, X_soh), Join2(X_a_c, X_zero),
         Join2(X_zero, X_bad), Join2(X_bad, X_zero), Join2(X_big, X_zero),
         Join2(X_two, X_zero), Join2(X_a, X_z_a), Join2(X_z_a, X_a_c),
         Join2(X_b_a, X_a), Join2(X_a, X_b_a),
         Join2(X_a_c, Join2(X_c_a, X_a))}}

ValuesOf(key) ==
    CASE key = "help" -> HelpValues
      [] key = "len" -> LenValues
      [] key = "alphabet" -> AlphabetValues
      [] key = "space" -> SpaceValues
      [] key = "urange" -> UrangeValues
      [] key = "base" -> BaseValues
      [] OTHER -> {True}

RECURSIVE MapsOver(_)
MapsOver(K) ==
    IF K = {} THEN {[k \in {} |-> True]}
    ELSE LET key == CHOOSE k \in K : TRUE
         IN  {[k \in K |-> IF k = key THEN v ELSE m[k]] :
                  m \in MapsOver(K \ {key}), v \in ValuesOf(key)}

KeySets == {J \in SUBSET Keys : Cardinality(J) <= MaxArgs}

(***************************************************************************)
(* The state machine: one command event, handled once.                     *)
(***************************************************************************)
Init ==
    /\ \E K \in KeySets : args \in MapsOver(K)
    /\ exit = "pending"
    /\ exc = "none"
    /\ sends = <<>>
    /\ disable_reply = FALSE
    /\ length = 0
    /\ data = <<>>
    /\ randomness = NoValue
    /\ ranges = <<>>
    /\ weights = <<>>
    /\ logged = FALSE

\* RandomBot.urandom(evt, args)
urandom ==
    /\ exit = "pending"
    /\ \E o \in Handler(args) :
           /\ exit' = o.exit
           /\ exc' = o.exc
           /\ sends' = o.sends
           /\ disable_reply' = o.disable_reply
           /\ length' = o.length
           /\ data' = o.data
           /\ randomness' = o.randomness
           /\ ranges' = o.ranges
           /\ weights' = o.weights
           /\ logged' = o.logged
    /\ UNCHANGED args

Next == urandom

Spec == Init /\ [][Next]_vars

(***************************************************************************)
(* Vocabulary of the properties.                                           *)
(***************************************************************************)
Done == exit # "pending"

NoHelp == ~Has(args, "help")

\* the value of `len=<int>`, when len is given a str that int() accepts
LenArg ==
    IF Has(args, "len") /\ args["len"].t = "str"
    THEN ParseInt(args["len"].s, 10)
    ELSE [ok |-> FALSE, v |-> 0]

\* the handler got past the length checks
PastLength == Done /\ NoHelp /\ 0 <= length /\ length <= MAX_LENGTH

InAlphabetMode == PastLength /\ Has(args, "alphabet")

InUrangeMode == PastLength /\ ~Has(args, "alphabet") /\ Has(args, "urange")

InByteMode == PastLength /\ ~Has(args, "alphabet") /\ ~Has(args, "urange")

\* the range expressions of a urange value given as a str
Expressions ==
    IF Has(args, "urange") /\ args["urange"].t = "str"
    THEN [i \in DOMAIN Split(args["urange"].s, ",") |->
              Strip(Split(args["urange"].s, ",")[i])]
    ELSE <<>>

Outputs == {i \in DOMAIN sends : sends[i].kind \in {"notice", "topic"}}

Topics == {i \in DOMAIN sends : sends[i].kind = "topic"}

Notices == {i \in DOMAIN sends : sends[i].kind = "notice"}

\* nothing was generated, parsed or logged
NothingGenerated ==
    /\ randomness = NoValue
    /\ data = <<>>
    /\ ranges = <<>>
    /\ weights = <<>>
    /\ ~logged

HasCc(r) == \E c \in r.chars : IsCc(c)

KnownBases ==
    {Str(<<"r", "a", "w">>), Str(<<"1", "6">>), Str(<<"h", "e", "x">>),
     Str(<<"3", "2">>), Str(<<"6", "4">>), Str(<<"8", "5">>),
     Str(<<"6", "5", "5", "3", "6">>)}

BaseArg == IF Has(args, "base") THEN args["base"] ELSE Str(DEFAULT_BASE)

(***************************************************************************)
(* C1.  Every validation failure (a length over 512 or under 0, a urange   *)
(* expression that is unparsable, out of range or has a zero endpoint, an  *)
(* unrecognized base in byte mode) is one diagnostic reply after which the *)
(* handler returns normally, with no output message and no topic event.    *)
(* The code does not return after "Unknown base": it goes on to scan the   *)
(* bytes, which raises TypeError.                                          *)
(***************************************************************************)
RejectedExpression(p) ==
    \/ p.exc # "none"
    \/ p.start = 0 \/ p.end = 0
    \/ ~InLim(p.start) \/ ~InLim(p.end)

ValidationFailure ==
    \/ exit \in {"too_high", "invalid_length"}
    \/ /\ InUrangeMode
       /\ \E i \in DOMAIN Expressions : RejectedExpression(parse_urange(Expressions[i]))
    \/ InByteMode /\ BaseArg \notin KnownBases

C1_ValidationFailureIsOneDiagnostic ==
    (Done /\ ValidationFailure) =>
        /\ exc = "none"
        /\ Len(sends) = 1
        /\ sends[1].kind = "reply"
        /\ Outputs = {}

(***************************************************************************)
(* C2.  The number of units generated: bytes in byte mode (read back from  *)
(* the encoded output by the inverse of its encoding), characters in       *)
(* alphabet mode without shuffle and in urange mode.                       *)
(***************************************************************************)
\* the number of bytes the inverse decoding of `base` yields on r
DecodedLength(base, r) ==
    IF base \in {Str(<<"1", "6">>), Str(<<"h", "e", "x">>)} THEN r.len \div 2
    ELSE IF base = Str(<<"3", "2">>) THEN (5 * r.len) \div 8
    ELSE IF base = Str(<<"6", "4">>) THEN (3 * r.len) \div 4
    ELSE IF base = Str(<<"8", "5">>)
    THEN 4 * (r.len \div 5) + (IF r.len % 5 = 0 THEN 0 ELSE (r.len % 5) - 1)
    ELSE 2 * r.len - (IF r.odd THEN 1 ELSE 0)

\* the modes and bases the claim counts units in
Counted ==
    /\ exit = "delivered"
    /\ \/ InAlphabetMode /\ ~Has(args, "shuffle") /\ ~Has(args, "permutation")
       \/ InUrangeMode
       \/ InByteMode /\ BaseArg \in KnownBases \ {Str(<<"r", "a", "w">>)}

UnitsGenerated ==
    IF InByteMode THEN DecodedLength(BaseArg, randomness) ELSE randomness.len

\* C2 as stated: for every integer len in [0, 512] given as len=<int>,
\* len = 0 included, exactly len units are generated.
C2_ExactlyLenUnits ==
    (Counted /\ LenArg.ok /\ 0 <= LenArg.v /\ LenArg.v <= MAX_LENGTH) =>
        UnitsGenerated = LenArg.v

\* C2 as amended: for every integer len in [1, 512] given as len=<int>
\* exactly len units are generated; 64 units are generated when len is 0,
\* when len is absent and when its value is a str that is no integer; a
\* bare `len` flag generates 1 unit.
C2_LenUnitsOrDefault ==
    Counted =>
        UnitsGenerated =
            IF ~Has(args, "len") THEN DEFAULT_LENGTH
            ELSE IF args["len"].t = "bool" THEN 1
            ELSE IF LenArg.ok /\ LenArg.v # 0 THEN LenArg.v
            ELSE DEFAULT_LENGTH

\* len=0 in byte mode, default base: 64 bytes, 86 base64 characters
C2_Witness ==
    /\ Counted
    /\ InByteMode
    /\ Has(args, "len") /\ args["len"] = Str(<<"0">>)
    /\ ~Has(args, "base")
    /\ randomness.len = 86

Count(s, c) == Cardinality({i \in DOMAIN s : s[i] = c})

SameMultiset(s, t) ==
    Len(s) = Len(t) /\ \A c \in Range(s) \cup Range(t) : Count(s, c) = Count(t, c)

Substituted ==
    IF Has(args, "space")
    THEN Replace(args["alphabet"].s, args["space"].s)
    ELSE args["alphabet"].s

C4_ShuffleIgnoresLen ==
    (/\ Done /\ NoHelp
     /\ Has(args, "alphabet") /\ args["alphabet"].t = "str"
     /\ Has(args, "space") => args["space"].t = "str"
     /\ Has(args, "shuffle") \/ Has(args, "permutation")) =>
        /\ SameMultiset(data, Substituted)
        /\ \E i \in Outputs : sends[i].body = Text(Len(data), Codes(data))

(***************************************************************************)
(* C5.  In urange mode every code point of the delivered output lies in    *)
(* one of the given ranges, ends included: start <= c <= end for a parsed  *)
(* expression (start, end).  Such a range has start <= end, so no range of *)
(* zero or negative weight is the source of a code point.                  *)
(***************************************************************************)
Specified == {parse_urange(Expressions[i]) : i \in DOMAIN Expressions}

C5_OutputWithinRanges ==
    (exit = "delivered" /\ InUrangeMode) =>
        \A i \in Outputs :
            \A c \in sends[i].body.chars :
                \E p \in Specified : p.exc = "none" /\ p.start <= c /\ c <= p.end

\* `z-a,a-c`: a range of negative weight beside a-c, whose last code point
\* is drawn
C5_Witness ==
    /\ exit = "delivered"
    /\ InUrangeMode
    /\ args["urange"] = Str(Join2(X_z_a, X_a_c))
    /\ \E i \in Outputs : 99 \in sends[i].body.chars

(***************************************************************************)
(* C6.  The dedicated zero-endpoint diagnostic.                            *)
(***************************************************************************)
ZeroDiagnostic == Reply("java.lang.NullPointerException")

\* the endpoints of a range expression, each parsed on its own
EndpointsOf(expr) ==
    IF "-" \notin Range(expr)
    THEN {IF StartsWith(expr, <<"U", "+">>)
          THEN IntOrValueError(From(expr, 3), 16)
          ELSE _parse_urange_part(expr)}
    ELSE IF StartsWith([i \in DOMAIN expr |-> UpperChar(expr[i])], <<"U", "+">>)
    THEN {IntOrValueError(part, 16) : part \in Range(Split(From(expr, 3), "-"))}
    ELSE {_parse_urange_part(part) : part \in Range(Split(expr, "-"))}

HasZeroEndpoint(expr) == \E r \in EndpointsOf(expr) : r.exc = "none" /\ r.v = 0

\* C6 as stated: a urange list with an expression that has an endpoint 0,
\* wherever it stands and whatever the other ranges and the other endpoint
\* are, gets the zero-endpoint diagnostic, never the generic reply, and no
\* output.
C6_ZeroEndpointAnywhere ==
    (InUrangeMode /\ \E i \in DOMAIN Expressions : HasZeroEndpoint(Expressions[i])) =>
        /\ sends = <<ZeroDiagnostic>>
        /\ randomness = NoValue

Accepted(p) ==
    p.exc = "none" /\ p.start # 0 /\ p.end # 0 /\ InLim(p.start) /\ InLim(p.end)

ZeroPair(p) == p.exc = "none" /\ (p.start = 0 \/ p.end = 0)

\* the first expression of the list that is not accepted parses and has a
\* start or end of 0
FirstRejectedIsZero ==
    \E i \in DOMAIN Expressions :
        /\ ZeroPair(parse_urange(Expressions[i]))
        /\ \A j \in 1..(i - 1) : Accepted(parse_urange(Expressions[j]))

\* C6 as amended: a urange list whose first expression that is not accepted
\* parses (both endpoints) and has a start or end equal to 0 gets the
\* zero-endpoint diagnostic and never the generic reply, whatever follows it
\* and whether or not its other endpoint lies in range; no output is
\* generated.
C6_FirstRejectedZero ==
    (InUrangeMode /\ FirstRejectedIsZero) =>
        /\ sends = <<ZeroDiagnostic>>
        /\ exc = "none"
        /\ randomness = NoValue
        /\ ~logged

\* `0x0-0x110000`: the end is out of range, the start is 0
C6_Witness ==
    /\ exit = "zero_endpoint"
    /\ args["urange"] = Str(X_zero_big)
    /\ sends = <<ZeroDiagnostic>>

(***************************************************************************)
(* C7.  With `help` present the invocation sends the matching help page    *)
(* and nothing else: no length error even when len is over 512 or under 0, *)
(* nothing generated, no output message, no topic event.                   *)
(***************************************************************************)
PageOf(v) ==
    CASE v = True -> "HELP"
      [] v = Str(<<"b", "a", "s", "e">>) -> "HELP_BASE"
      [] v = Str(<<"a", "l", "p", "h", "a", "b", "e", "t">>) -> "HELP_ALPHABET"
      [] v = Str(<<"u", "r", "a", "n", "g", "e">>) -> "HELP_URANGE"
      [] v = Str(<<"t", "o", "p", "i", "c">>) -> "HELP_TOPIC"
      [] v = Str(<<"l", "e", "n">>) -> "HELP_LEN"
      [] v = Str(<<"h", "e", "l", "p">>) -> "HELP_HELP"
      [] OTHER -> "HELP_UNKNOWN"

C7_HelpShortCircuits ==
    (Done /\ Has(args, "help")) =>
        /\ sends = <<Reply(PageOf(args["help"]))>>
        /\ exc = "none"
        /\ NothingGenerated

C7_Witness ==
    /\ exit = "help"
    /\ Has(args, "len") /\ args["len"] = Str(<<"5", "1", "3">>)
    /\ Has(args, "topic")
    /\ sends = <<Reply("HELP_ALPHABET")>>

(***************************************************************************)
(* C8.  `topic` redirects the output: a delivered output goes out as       *)
(* exactly one topic event and no notice when `topic` is present, as       *)
(* exactly one notice and no topic event when it is absent; an invocation  *)
(* that ends otherwise (help, an error) sends neither.                     *)
(***************************************************************************)
C8_TopicRedirects ==
    Done =>
        /\ (exit = "delivered" /\ Has(args, "topic")) =>
               /\ Cardinality(Topics) = 1 /\ Notices = {}
               /\ \A i \in Topics : sends[i].body = randomness
        /\ (exit = "delivered" /\ ~Has(args, "topic")) =>
               /\ Cardinality(Notices) = 1 /\ Topics = {}
               /\ \A i \in Notices : sends[i].body = randomness
        /\ exit # "delivered" => Outputs = {}

\* an output with a control character set as the topic: the warning, then
\* the topic event
C8_Witness ==
    /\ exit = "delivered"
    /\ Has(args, "topic")
    /\ Len(sends) = 2
    /\ sends[2] = TopicEvent(randomness)
    /\ randomness.type = "str"

(***************************************************************************)
(* C9.  An invocation that does not raise sends once, or twice exactly     *)
(* when the generated output holds a character of category Cc: then the    *)
(* warning goes first and the output is still delivered after it.          *)
(***************************************************************************)
Warning == Reply("Output contains non-printable characters")

C9_OneSendOrWarningThenOutput ==
    (Done /\ exc = "none") =>
        /\ Len(sends) \in {1, 2}
        /\ Len(sends) = 2 <=> (exit = "delivered" /\ HasCc(randomness))
        /\ Len(sends) = 2 =>
               /\ sends[1] = Warning
               /\ sends[2].kind \in {"notice", "topic"}
               /\ sends[2].body = randomness

C9_Witness ==
    /\ exit = "delivered"
    /\ exc = "none"
    /\ InUrangeMode
    /\ sends = <<Warning, Notice(randomness)>>

(***************************************************************************)
(* C10.  When the handler reaches the weighted sampling of urange mode,    *)
(* every range of the list is samplable: its weight is at least 1, its     *)
(* half-open pair is not empty and the total weight is positive; a range   *)
(* expression with start > end is rejected before.  The code appends such  *)
(* a range and samples.                                                    *)
(***************************************************************************)
ReachedSampling == InUrangeMode /\ exit \in {"sampling", "delivered"}

C10_SamplingOnlySamplable ==
    ReachedSampling =>
        /\ \A i \in DOMAIN weights : weights[i] >= 1 /\ ranges[i][1] < ranges[i][2]
        /\ Total(weights) > 0

====
